---- MODULE Spec2Model ----
(***************************************************************************)
(* Model of generate_schema.py: schema inference over a parsed JSON        *)
(* document.  Python containers are objects on a heap (lists are extended  *)
(* in place by merge_nested_dicts, so aliasing matters); scalars, None and *)
(* MixedType instances are immutable values held inline.                   *)
(***************************************************************************)
EXTENDS Integers, Sequences, FiniteSets, TLC

\* ---------------------------------------------------------------- bounds
\* nodes of a document of the general family
MaxNodes == 4
\* sibling objects in a document of the sibling family
MaxSiblings == 3
\* length of a flat array of scalars
MaxFlat == 2
\* inner arrays in a document of the nested family
MaxInner == 2
\* slots of the interpreter's recursion counter that are left when
\* infer_schema is called: the recursion limit of the host
\* (sys.getrecursionlimit(), 1000 unless the host sets it) less what the
\* caller has taken; the program never reads or sets the limit and behaves
\* alike relative to it, whatever its value
StackFrames == 17

\* the value of x handed to F; x is evaluated once, however often F uses it
Bind(x, F(_)) == CHOOSE y \in {F(v) : v \in {x}} : TRUE

\* ------------------------------------------------------- JSON documents
\* A document is a tree: what json.load returns, before any call.
Scalar(t) == [kind |-> "scalar", type |-> t]
ListTree(ts) == [kind |-> "list", items |-> ts]
DictTree(ks, ts) == [kind |-> "dict", keys |-> ks, vals |-> ts]

\* type(x).__name__ of what json.load produces for null, true, 1, 1.5, "x"
AllScalarTypes == {"NoneType", "bool", "int", "float", "str"}
GenTypes == {"NoneType", "int", "str"}
KeySet == {"a", "b"}

Leaf == {Scalar(t) : t \in GenTypes}

KeySeqs(n) == {ks \in [1..n -> KeySet] : \A i, j \in 1..n : ks[i] = ks[j] => i = j}

RECURSIVE TreesOfSize(_), Forests(_, _)
\* the sequences of len trees with s nodes in all
Forests(s, len) ==
  IF len = 0 THEN (IF s = 0 THEN {<<>>} ELSE {})
  ELSE UNION {{<<t>> \o f : t \in TreesOfSize(i), f \in Forests(s - i, len - 1)}
              : i \in 1..(s - (len - 1))}

\* the documents with exactly n nodes
TreesOfSize(n) ==
  IF n = 1 THEN Leaf \cup {ListTree(<<>>), DictTree(<<>>, <<>>)}
  ELSE UNION {{ListTree(f) : f \in Forests(n - 1, len)}
              \cup {DictTree(ks, f) : ks \in KeySeqs(len), f \in Forests(n - 1, len)}
              : len \in 1..(n - 1)}

\* every document of at most MaxNodes nodes over three scalar kinds and two keys
GeneralDocs == UNION {TreesOfSize(n) : n \in 1..MaxNodes}

SeqsUpTo(S, n) == UNION {[1..k -> S] : k \in 0..n}

\* arrays of scalars of every kind
FlatDocs == {ListTree(s) : s \in SeqsUpTo({Scalar(t) : t \in AllScalarTypes}, MaxFlat)}

\* arrays of sibling objects: each is {"b": 1} or {"a": v}, v a scalar, a list
\* of scalars, an object or a list of objects
SiblingLeaf == {Scalar("int"), Scalar("str")}
FlatLists == {ListTree(s) : s \in SeqsUpTo(SiblingLeaf, 1)}
InnerDicts == {DictTree(<<"b">>, <<w>>) : w \in {Scalar("int"), ListTree(<<Scalar("int")>>)}}
DictLists == {ListTree(<<DictTree(<<"b">>, <<w>>)>>) : w \in SiblingLeaf}
FieldVals == SiblingLeaf \cup FlatLists \cup InnerDicts \cup DictLists
Siblings == {DictTree(<<"b">>, <<Scalar("int")>>)}
            \cup {DictTree(<<"a">>, <<v>>) : v \in FieldVals}
SiblingDocs == {ListTree(s) : s \in SeqsUpTo(Siblings, MaxSiblings)}

\* arrays of arrays of at most two scalars or objects
InnerElems == SiblingLeaf \cup {DictTree(<<"a">>, <<w>>) : w \in SiblingLeaf}
InnerArrays == {ListTree(s) : s \in SeqsUpTo(InnerElems, 2)}
NestedDocs == {ListTree(s) : s \in SeqsUpTo(InnerArrays, MaxInner)}

RECURSIVE DictChain(_)
\* n objects nested in one another: {"a": {"a": ... {"a": 1}}}
DictChain(n) == IF n = 0 THEN Scalar("int") ELSE DictTree(<<"a">>, <<DictChain(n - 1)>>)

\* objects nested up to one level deeper than StackFrames has room for
DeepDocs == {DictChain(n) : n \in 1..(StackFrames \div 3 + 1)}

Docs == GeneralDocs \cup FlatDocs \cup SiblingDocs \cup NestedDocs \cup DeepDocs

\* ----------------------------------------------------------------- heap
\* A value is a scalar, a MixedType instance or a reference to a container.
Ref(a) == [kind |-> "ref", addr |-> a]
Mixed == [kind |-> "mixed"]

RECURSIVE Load(_, _), LoadSeq(_, _)
\* json.load: every array and object is a fresh container, nothing is shared
Load(h, t) ==
  IF t.kind = "scalar" THEN [heap |-> h, val |-> t]
  ELSE Bind(LoadSeq(h, IF t.kind = "list" THEN t.items ELSE t.vals),
            LAMBDA r :
              [heap |-> Append(r.heap,
                               IF t.kind = "list"
                               THEN [kind |-> "list", items |-> r.vals]
                               ELSE [kind |-> "dict", keys |-> t.keys, vals |-> r.vals]),
               val |-> Ref(Len(r.heap) + 1)])

LoadSeq(h, ts) ==
  IF Len(ts) = 0 THEN [heap |-> h, vals |-> <<>>]
  ELSE Bind(Load(h, Head(ts)),
            LAMBDA r1 :
              Bind(LoadSeq(r1.heap, Tail(ts)),
                   LAMBDA r2 : [heap |-> r2.heap, vals |-> <<r1.val>> \o r2.vals]))

RECURSIVE Readback(_, _)
\* the document a value stands for in heap h
Readback(h, v) ==
  IF v.kind # "ref" THEN v
  ELSE LET o == h[v.addr]
       IN IF o.kind = "list"
          THEN ListTree([i \in 1..Len(o.items) |-> Readback(h, o.items[i])])
          ELSE DictTree(o.keys, [i \in 1..Len(o.vals) |-> Readback(h, o.vals[i])])

isinstance_list(h, x) == x.kind = "ref" /\ h[x.addr].kind = "list"
isinstance_dict(h, x) == x.kind = "ref" /\ h[x.addr].kind = "dict"

\* type(x).__name__
TypeName(h, x) ==
  CASE x.kind = "scalar" -> x.type
    [] x.kind = "mixed" -> "MixedType"
    [] x.kind = "ref" -> h[x.addr].kind

\* dict operations on the dict at address m
IndexOf(ks, key) == CHOOSE i \in 1..Len(ks) : ks[i] = key
HasKey(d, key) == \E i \in 1..Len(d.keys) : d.keys[i] = key
Lookup(d, key) == d.vals[IndexOf(d.keys, key)]
Store(h, m, key, value) ==
  IF HasKey(h[m], key)
  THEN [h EXCEPT ![m].vals[IndexOf(h[m].keys, key)] = value]
  ELSE [h EXCEPT ![m].keys = Append(@, key), ![m].vals = Append(@, value)]

\* ------------------------------------------------------- schema values
Label(name) == [kind |-> "label", name |-> name]          \* "int", "str", ...
NullMarker == [kind |-> "null"]                            \* None
EmptyArray == [kind |-> "empty"]                           \* []
Single(s) == [kind |-> "single", elem |-> s]               \* [s]
Hetero(types) == [kind |-> "hetero", types |-> types]      \* list(set(...)), order unspecified
Object(ks, ss) == [kind |-> "object", fields |-> [k \in {ks[i] : i \in 1..Len(ks)} |-> ss[IndexOf(ks, k)]]]

\* --------------------------------------------------------- the program
\* Every operator that stands for a Python function takes the number of
\* slots of the interpreter's recursion counter that are left when the call is
\* made (CPython 3.11).  A call takes one slot while it runs, and so does
\* running a comprehension or a generator and calling a built-in function or
\* method (isinstance, d.items(), list.extend, ...); what needs a slot when
\* none is left raises RecursionError.  No function of the program catches an
\* exception.  Only the built-in calls that can be the first to run out of
\* slots are written out: d.items() of line 36 and isinstance(obj, (list,
\* tuple)) of line 67; every other one needs no more slots than a call that
\* has succeeded just before it in the same function.
Raise(e) == [kind |-> "raised", error |-> e]
RecursionError == Raise("RecursionError")
IsRaised(v) == v.kind = "raised"

Done(h) == [heap |-> h, ok |-> TRUE, err |-> "none"]
Fail(h, e) == [heap |-> h, ok |-> FALSE, err |-> e]

\* mutant: labels by isinstance, so that True counts as an int
extract_unique_types_BoolAsInt(h, lst) ==
  {IF TypeName(h, lst[i]) = "bool" THEN "int" ELSE TypeName(h, lst[i]) : i \in 1..Len(lst)}

\* the set of labels; the call and its generator expression take two frames
extract_unique_types(h, lst) == {TypeName(h, lst[i]) : i \in 1..Len(lst)}

RECURSIVE merge_nested_dicts(_, _, _), MergeLoop(_, _, _, _, _), MergeDict(_, _, _, _),
          MergeItems(_, _, _, _, _, _), MergeEntry(_, _, _, _, _)

\* line 39: merged[key] = merge_nested_dicts([merged[key], value])
MergeNested(h, m, key, cur, value, free) ==
  Bind(merge_nested_dicts(h, <<cur, value>>, free),
       LAMBDA r : IF IsRaised(r.val) THEN Fail(r.heap, r.val.error)
                  ELSE Done(Store(r.heap, m, key, r.val)))

\* line 41: merged[key].extend(value), in place
Extend(h, cur, value) == [h EXCEPT ![cur.addr].items = @ \o h[value.addr].items]

\* mutant: a final "else: merged[key] = value" (last write wins)
MergeEntry_LastWrite(h, m, key, value, free) ==
  IF HasKey(h[m], key)
  THEN Bind(Lookup(h[m], key),
            LAMBDA cur :
              IF isinstance_dict(h, cur) /\ isinstance_dict(h, value)
              THEN MergeNested(h, m, key, cur, value, free)
              ELSE IF isinstance_list(h, cur) /\ isinstance_list(h, value)
              THEN Done(Extend(h, cur, value))
              ELSE IF isinstance_list(h, cur) # isinstance_list(h, value)
              THEN Done(Store(h, m, key, Mixed))
              ELSE Done(Store(h, m, key, value)))
  ELSE Done(Store(h, m, key, value))

\* mutant: the mismatch branch tests only "existing is a list, new is not"
MergeEntry_OneSided(h, m, key, value, free) ==
  IF HasKey(h[m], key)
  THEN Bind(Lookup(h[m], key),
            LAMBDA cur :
              IF isinstance_dict(h, cur) /\ isinstance_dict(h, value)
              THEN MergeNested(h, m, key, cur, value, free)
              ELSE IF isinstance_list(h, cur) /\ isinstance_list(h, value)
              THEN Done(Extend(h, cur, value))
              ELSE IF isinstance_list(h, cur) /\ ~isinstance_list(h, value)
              THEN Done(Store(h, m, key, Mixed))
              ELSE Done(h))
  ELSE Done(Store(h, m, key, value))

\* mutant: the new list's elements are put before the existing ones
MergeEntry_Prepend(h, m, key, value, free) ==
  IF HasKey(h[m], key)
  THEN Bind(Lookup(h[m], key),
            LAMBDA cur :
              IF isinstance_dict(h, cur) /\ isinstance_dict(h, value)
              THEN MergeNested(h, m, key, cur, value, free)
              ELSE IF isinstance_list(h, cur) /\ isinstance_list(h, value)
              THEN Done([h EXCEPT ![cur.addr].items = h[value.addr].items \o @])
              ELSE IF isinstance_list(h, cur) # isinstance_list(h, value)
              THEN Done(Store(h, m, key, Mixed))
              ELSE Done(h))
  ELSE Done(Store(h, m, key, value))

\* lines 37-45, the body of the inner loop: one (key, value) of d into the
\* dict at m; a key that is in merged and matches no branch is left as it is.
\* d.items() has returned, so a slot is left (free > 0) for each built-in call
MergeEntry(h, m, key, value, free) ==
  IF HasKey(h[m], key)
  THEN Bind(Lookup(h[m], key),
            LAMBDA cur :
              IF isinstance_dict(h, cur) /\ isinstance_dict(h, value)
              THEN MergeNested(h, m, key, cur, value, free)
              ELSE IF isinstance_list(h, cur) /\ isinstance_list(h, value)
              THEN Done(Extend(h, cur, value))
              ELSE IF isinstance_list(h, cur) # isinstance_list(h, value)
              THEN Done(Store(h, m, key, Mixed))
              ELSE Done(h))
  ELSE Done(Store(h, m, key, value))

\* mutant: the inner loop is left after the first item of each dict
MergeItems_FirstOnly(h, m, ks, vs, j, free) ==
  IF j > Len(ks) \/ j > 1 THEN Done(h)
  ELSE Bind(MergeEntry(h, m, ks[j], vs[j], free),
            LAMBDA r : IF r.ok THEN MergeItems(r.heap, m, ks, vs, j + 1, free) ELSE r)

\* for key, value in d.items(), from the j-th item on
MergeItems(h, m, ks, vs, j, free) ==
  IF j > Len(ks) THEN Done(h)
  ELSE Bind(MergeEntry(h, m, ks[j], vs[j], free),
            LAMBDA r : IF r.ok THEN MergeItems(r.heap, m, ks, vs, j + 1, free) ELSE r)

\* one iteration of the outer loop, with free slots left in the frame of
\* merge_nested_dicts: d.items is an AttributeError when d is not a dict, and
\* calling it takes a slot
MergeDict(h, m, d, free) ==
  IF ~isinstance_dict(h, d) THEN Fail(h, "AttributeError")
  ELSE IF free = 0 THEN Fail(h, "RecursionError")
  ELSE MergeItems(h, m, h[d.addr].keys, h[d.addr].vals, 1, free)

\* for d in dict_list, from the i-th dict on
MergeLoop(h, m, dict_list, i, free) ==
  IF i > Len(dict_list) THEN Done(h)
  ELSE Bind(MergeDict(h, m, dict_list[i], free),
            LAMBDA r : IF r.ok THEN MergeLoop(r.heap, m, dict_list, i + 1, free) ELSE r)

NewDict == [kind |-> "dict", keys |-> <<>>, vals |-> <<>>]

merge_nested_dicts(h, dict_list, free) ==
  IF free = 0 THEN [heap |-> h, val |-> RecursionError]
  ELSE Bind(Append(h, NewDict),
            LAMBDA h0 :
              Bind(MergeLoop(h0, Len(h0), dict_list, 1, free - 1),
                   LAMBDA r : [heap |-> r.heap,
                               val |-> IF r.ok THEN Ref(Len(h0)) ELSE Raise(r.err)]))

RECURSIVE chain(_, _)
\* mutant: only the first inner list is taken
chain_FirstOnly(h, lst) ==
  IF Len(lst) = 0 THEN <<>>
  ELSE IF ~isinstance_list(h, Head(lst)) THEN <<Raise("TypeError")>>
  ELSE h[Head(lst).addr].items

\* list(chain.from_iterable(lst)) for the list items lst; the code reaches it
\* with lists only, and something that cannot be iterated raises
chain(h, lst) ==
  IF Len(lst) = 0 THEN <<>>
  ELSE IF ~isinstance_list(h, Head(lst)) THEN <<Raise("TypeError")>>
  ELSE h[Head(lst).addr].items \o chain(h, Tail(lst))

\* executions of infer_schema after which the interpreter has specialised its
\* bytecode: from then on isinstance is called without a slot of its own
WarmUp == 7

\* runs counts the executions of infer_schema in this process, up to WarmUp
Bump(runs) == IF runs < WarmUp THEN runs + 1 ELSE runs

\* slots isinstance(obj, (list, tuple)) needs: one for the check against a
\* tuple of classes and, until the call is specialised, one for the call
IsinstanceSlots(runs) == IF runs < WarmUp THEN 2 ELSE 1

RECURSIVE infer_schema(_, _, _, _), infer_list_schema(_, _, _, _),
          infer_dict_schema(_, _, _, _), InferValues(_, _, _, _, _),
          InferUniform(_, _, _, _, _)

\* [s], or the exception the inner call raised
Wrap(r) == [heap |-> r.heap,
            val |-> IF IsRaised(r.val) THEN r.val ELSE Single(r.val),
            runs |-> r.runs]

\* infer_schema of the values vs, from the j-th on, in order
InferValues(h, vs, j, free, runs) ==
  IF j > Len(vs) THEN [heap |-> h, vals |-> <<>>, ok |-> TRUE, err |-> "none", runs |-> runs]
  ELSE Bind(infer_schema(h, vs[j], free, runs),
            LAMBDA r1 :
              IF IsRaised(r1.val)
              THEN [heap |-> r1.heap, vals |-> <<>>, ok |-> FALSE,
                    err |-> r1.val.error, runs |-> r1.runs]
              ELSE Bind(InferValues(r1.heap, vs, j + 1, free, r1.runs),
                        LAMBDA r2 : [heap |-> r2.heap,
                                     vals |-> <<r1.val>> \o r2.vals,
                                     ok |-> r2.ok,
                                     err |-> r2.err,
                                     runs |-> r2.runs]))

\* data.items() is taken first (a slot), then the comprehension runs in a
\* frame of its own (a slot) and calls infer_schema for each value
infer_dict_schema(h, data, free, runs) ==
  IF free = 0 THEN [heap |-> h, val |-> RecursionError, runs |-> runs]
  ELSE IF ~isinstance_dict(h, data)
  THEN [heap |-> h, val |-> Raise("AttributeError"), runs |-> runs]
  ELSE IF free = 1 THEN [heap |-> h, val |-> RecursionError, runs |-> runs]
  ELSE Bind(InferValues(h, h[data.addr].vals, 1, free - 2, runs),
            LAMBDA r : [heap |-> r.heap,
                        val |-> IF r.ok THEN Object(h[data.addr].keys, r.vals)
                                ELSE Raise(r.err),
                        runs |-> r.runs])

\* lines 58-62 of infer_list_schema: every element of items has type name
\* first; free slots are left for a call made by infer_list_schema
InferUniform(h, items, first, free, runs) ==
  IF first = "dict"
  THEN Bind(merge_nested_dicts(h, items, free),
            LAMBDA mr : IF IsRaised(mr.val)
                        THEN [heap |-> mr.heap, val |-> mr.val, runs |-> runs]
                        ELSE Bind(infer_dict_schema(mr.heap, mr.val, free, runs), Wrap))
  ELSE IF first = "list"
  THEN Bind(chain(h, items),
            LAMBDA flat :
              IF \E i \in 1..Len(flat) : IsRaised(flat[i])
              THEN [heap |-> h, val |-> Raise("TypeError"), runs |-> runs]
              ELSE Bind(Append(h, [kind |-> "list", items |-> flat]),
                        LAMBDA h1 : Bind(infer_list_schema(h1, Ref(Len(h1)), free, runs),
                                         Wrap)))
  ELSE [heap |-> h, val |-> Single(Label(first)), runs |-> runs]

\* mutant: "if len(lst) > 1" in place of "if len(types) > 1"
infer_list_schema_LenOfList(h, lst, free, runs) ==
  IF free = 0 THEN [heap |-> h, val |-> RecursionError, runs |-> runs]
  ELSE LET items == h[lst.addr].items
       IN IF Len(items) > 0
          THEN IF free - 1 < 2 THEN [heap |-> h, val |-> RecursionError, runs |-> runs]
               ELSE LET types == extract_unique_types(h, items)
                    IN IF Len(items) > 1
                       THEN [heap |-> h, val |-> Hetero(types), runs |-> runs]
                       ELSE InferUniform(h, items, CHOOSE t \in types : TRUE, free - 1, runs)
          ELSE [heap |-> h, val |-> EmptyArray, runs |-> runs]

\* extract_unique_types and its generator expression take two slots
infer_list_schema(h, lst, free, runs) ==
  IF free = 0 THEN [heap |-> h, val |-> RecursionError, runs |-> runs]
  ELSE LET items == h[lst.addr].items
       IN IF Len(items) > 0
          THEN IF free - 1 < 2 THEN [heap |-> h, val |-> RecursionError, runs |-> runs]
               ELSE LET types == extract_unique_types(h, items)
                    IN IF Cardinality(types) > 1
                       THEN [heap |-> h, val |-> Hetero(types), runs |-> runs]
                       ELSE InferUniform(h, items, CHOOSE t \in types : TRUE, free - 1, runs)
          ELSE [heap |-> h, val |-> EmptyArray, runs |-> runs]

\* mutant: an object that is no JSON value (a MixedType instance) is rejected
infer_schema_Strict(h, obj, free, runs) ==
  IF free = 0 THEN [heap |-> h, val |-> RecursionError, runs |-> runs]
  ELSE IF free - 1 < IsinstanceSlots(runs)
  THEN [heap |-> h, val |-> RecursionError, runs |-> Bump(runs)]
  ELSE IF isinstance_list(h, obj) THEN infer_list_schema(h, obj, free - 1, Bump(runs))
  ELSE IF isinstance_dict(h, obj) THEN infer_dict_schema(h, obj, free - 1, Bump(runs))
  ELSE IF obj = Scalar("NoneType") THEN [heap |-> h, val |-> NullMarker, runs |-> Bump(runs)]
  ELSE IF obj = Mixed THEN [heap |-> h, val |-> Raise("TypeError"), runs |-> Bump(runs)]
  ELSE [heap |-> h, val |-> Label(TypeName(h, obj)), runs |-> Bump(runs)]

\* the call is an execution of infer_schema once it has its frame; line 67
\* then needs the slots of isinstance(obj, (list, tuple))
infer_schema(h, obj, free, runs) ==
  IF free = 0 THEN [heap |-> h, val |-> RecursionError, runs |-> runs]
  ELSE IF free - 1 < IsinstanceSlots(runs)
  THEN [heap |-> h, val |-> RecursionError, runs |-> Bump(runs)]
  ELSE IF isinstance_list(h, obj) THEN infer_list_schema(h, obj, free - 1, Bump(runs))
  ELSE IF isinstance_dict(h, obj) THEN infer_dict_schema(h, obj, free - 1, Bump(runs))
  ELSE IF obj = Scalar("NoneType") THEN [heap |-> h, val |-> NullMarker, runs |-> Bump(runs)]
  ELSE [heap |-> h, val |-> Label(TypeName(h, obj)), runs |-> Bump(runs)]

\* ------------------------------------------------------- state machine
VARIABLES doc,      \* the document as json.load returned it
          heap,     \* the containers, by address
          root,     \* the value handed to infer_schema
          pc,       \* "start", "merging", "once", "twice"
          merged,   \* address of the accumulator of the running merge, 0 if none
          idx,      \* sibling objects the running merge has consumed
          result,   \* what the first infer_schema(root) returned
          result2,  \* what the second infer_schema(root) returned
          runs      \* executions of infer_schema in this process, up to WarmUp

vars == <<doc, heap, root, pc, merged, idx, result, result2, runs>>

NoResult == [kind |-> "pending"]

\* the root is a non-empty list whose elements are all dicts
IsSiblingArray(h, v) ==
  /\ isinstance_list(h, v)
  /\ Len(h[v.addr].items) > 0
  /\ extract_unique_types(h, h[v.addr].items) = {"dict"}

\* infer_schema(root) gets as far as merge_nested_dicts(lst): the frames of
\* infer_schema and infer_list_schema, and two more slots for
\* extract_unique_types
EntersMerge == IsSiblingArray(heap, root) /\ StackFrames >= 4

\* the document is loaded, in a process that has not run infer_schema before
\* (the command line of lines 75-95) or in one that has run it often enough
\* for the interpreter to have specialised it (a caller of the module)
Init ==
  /\ doc \in Docs
  /\ \E l \in {Load(<<>>, doc)} : heap = l.heap /\ root = l.val
  /\ pc = "start"
  /\ merged = 0
  /\ idx = 0
  /\ result = NoResult
  /\ result2 = NoResult
  /\ runs \in {0, WarmUp}

\* infer_schema(root) where no sibling merge runs at the top level
InferDirect ==
  /\ pc = "start"
  /\ ~EntersMerge
  /\ \E r \in {infer_schema(heap, root, StackFrames, runs)} :
        heap' = r.heap /\ result' = r.val /\ runs' = r.runs
  /\ pc' = "once"
  /\ UNCHANGED <<doc, root, merged, idx, result2>>

\* infer_schema(root) enters merge_nested_dicts(lst): merged = {}
MergeBegin ==
  /\ pc = "start"
  /\ EntersMerge
  /\ heap' = Append(heap, NewDict)
  /\ merged' = Len(heap) + 1
  /\ idx' = 0
  /\ pc' = "merging"
  /\ runs' = Bump(runs)
  /\ UNCHANGED <<doc, root, result, result2>>

\* one iteration of "for d in dict_list", in the frame of merge_nested_dicts
MergeStep ==
  /\ pc = "merging"
  /\ idx < Len(heap[root.addr].items)
  /\ \E r \in {MergeDict(heap, merged, heap[root.addr].items[idx + 1], StackFrames - 3)} :
        /\ heap' = r.heap
        /\ IF r.ok THEN /\ idx' = idx + 1
                        /\ UNCHANGED <<pc, result>>
           ELSE /\ pc' = "once"
                /\ result' = Raise(r.err)
                /\ UNCHANGED idx
  /\ UNCHANGED <<doc, root, merged, result2, runs>>

\* merge_nested_dicts returns; [infer_dict_schema(merged)] is the result
MergeEnd ==
  /\ pc = "merging"
  /\ idx = Len(heap[root.addr].items)
  /\ \E r \in {Wrap(infer_dict_schema(heap, Ref(merged), StackFrames - 2, runs))} :
        heap' = r.heap /\ result' = r.val /\ runs' = r.runs
  /\ pc' = "once"
  /\ UNCHANGED <<doc, root, merged, idx, result2>>

\* the caller calls infer_schema(root) again on the same object
InferAgain ==
  /\ pc = "once"
  /\ \E r \in {infer_schema(heap, root, StackFrames, runs)} :
        heap' = r.heap /\ result2' = r.val /\ runs' = r.runs
  /\ pc' = "twice"
  /\ UNCHANGED <<doc, root, merged, idx, result>>

Next == InferDirect \/ MergeBegin \/ MergeStep \/ MergeEnd \/ InferAgain

Spec == Init /\ [][Next]_vars

TypeOK ==
  /\ pc \in {"start", "merging", "once", "twice"}
  /\ idx \in 0..(MaxSiblings + MaxNodes)
  /\ runs \in 0..WarmUp

\* -------------------------------------------- the document, as first loaded
\* the dynamic-type label of a JSON value of the document
TreeTypeName(t) == IF t.kind = "scalar" THEN t.type ELSE t.kind

NumItems == Len(doc.items)
IsArrayDoc == doc.kind = "list" /\ Len(doc.items) > 0
DocLabels == {TreeTypeName(doc.items[i]) : i \in 1..NumItems}
IsSiblingDoc == IsArrayDoc /\ DocLabels = {"dict"}

TreeHasKey(d, k) == \E i \in 1..Len(d.keys) : d.keys[i] = k
TreeGet(d, k) == d.vals[IndexOf(d.keys, k)]

\* the siblings that carry key k, and those among the first n that hold a
\* sequence, or something else, under k
Carriers(k) == {i \in 1..NumItems : TreeHasKey(doc.items[i], k)}
SeenList(k, n) ==
  \E i \in 1..n : TreeHasKey(doc.items[i], k) /\ TreeGet(doc.items[i], k).kind = "list"
SeenNonList(k, n) ==
  \E i \in 1..n : TreeHasKey(doc.items[i], k) /\ TreeGet(doc.items[i], k).kind # "list"
FirstCarrier(k) == CHOOSE i \in Carriers(k) : \A j \in Carriers(k) : i <= j

RECURSIVE FieldItems(_, _), InnerItems(_)
\* the sequences the siblings i.. hold under k, concatenated in sibling order
FieldItems(k, i) ==
  IF i > NumItems THEN <<>>
  ELSE (IF TreeHasKey(doc.items[i], k) THEN TreeGet(doc.items[i], k).items ELSE <<>>)
       \o FieldItems(k, i + 1)

\* the inner arrays i.. of an array of arrays, concatenated in order
InnerItems(i) ==
  IF i > NumItems THEN <<>> ELSE doc.items[i].items \o InnerItems(i + 1)

\* infer_schema of a freshly loaded document
InferTree(t) == Bind(Load(<<>>, t), LAMBDA l : infer_schema(l.heap, l.val, StackFrames, 0).val)

RECURSIVE IsSchema(_)
\* s is a Schema Value (and not a raised exception)
IsSchema(s) ==
  CASE s.kind = "label" -> s.name \in AllScalarTypes \cup {"MixedType"}
    [] s.kind = "null" -> TRUE
    [] s.kind = "empty" -> TRUE
    [] s.kind = "single" -> IsSchema(s.elem)
    [] s.kind = "hetero" -> Cardinality(s.types) > 1
    [] s.kind = "object" -> \A k \in DOMAIN s.fields : IsSchema(s.fields[k])
    [] OTHER -> FALSE

Returned == pc \in {"once", "twice"}
ObjectArrayResult == result.kind = "single" /\ result.elem.kind = "object"

\* ----------------------------------------------------------------- claims

\* C1: infer_schema never mutates its input: once it has returned, every
\* array and object reachable from the root holds what the loaded document held.
C1_InputNotMutated == Returned => Readback(heap, root) = doc

\* the step of the merge consumes sibling idx + 1; key k is in the accumulator
\* and in the sibling, and the two values are neither both mappings, nor both
\* sequences, nor exactly one sequence
C2Case(k) ==
  /\ pc = "merging"
  /\ idx < Len(heap[root.addr].items)
  /\ LET d == heap[heap[root.addr].items[idx + 1].addr]
     IN /\ HasKey(heap[merged], k)
        /\ HasKey(d, k)
        /\ LET cur == Lookup(heap[merged], k)
               new == Lookup(d, k)
           IN /\ ~(isinstance_dict(heap, cur) /\ isinstance_dict(heap, new))
              /\ ~isinstance_list(heap, cur)
              /\ ~isinstance_list(heap, new)
C2New(k) == Lookup(heap[heap[root.addr].items[idx + 1].addr], k)

\* C2 (as claimed): in that case the accumulator entry after the step is the
\* new value (last write wins).
C2_LastWriteWins ==
  [][\A k \in KeySet : (C2Case(k) /\ idx' = idx + 1)
                        => Lookup(heap'[merged], k) = C2New(k)]_vars

\* the first sibling that carries k holds a scalar or null under k and no
\* sibling holds a sequence under k
C2Scalars(k) ==
  /\ Carriers(k) # {}
  /\ TreeGet(doc.items[FirstCarrier(k)], k).kind = "scalar"
  /\ ~SeenList(k, NumItems)

\* C2 (amended): in that case the accumulator entry is left as it was (first
\* write wins), so the schema of a key whose first value is a scalar and that
\* no sibling holds a sequence under is inferred from the first sibling that
\* carries the key.
C2_FirstWriteWins ==
  /\ [][\A k \in KeySet : (C2Case(k) /\ idx' = idx + 1)
                           => Lookup(heap'[merged], k) = Lookup(heap[merged], k)]_vars
  /\ [](\A k \in KeySet :
          (pc = "once" /\ IsSiblingDoc /\ C2Scalars(k))
          => /\ ObjectArrayResult
             /\ k \in DOMAIN result.elem.fields
             /\ result.elem.fields[k] = InferTree(TreeGet(doc.items[FirstCarrier(k)], k)))

C2_Witness ==
  /\ pc = "once"
  /\ IsSiblingDoc
  /\ NumItems = 2
  /\ C2Scalars("a")
  /\ TreeHasKey(doc.items[1], "a")
  /\ TreeGet(doc.items[1], "a") = Scalar("int")
  /\ TreeHasKey(doc.items[2], "a")
  /\ TreeGet(doc.items[2], "a") = Scalar("str")
  /\ result = Single([kind |-> "object", fields |-> [k \in {"a"} |-> Label("int")]])

\* C3: during the fold, once a key has been seen with a sequence in one
\* consumed sibling and a non-sequence in another, the accumulator holds a
\* MixedType under it, whatever the later siblings hold, and the returned
\* schema reports MixedType for that key.
C3_MixedAbsorbing ==
  \A k \in KeySet :
    /\ (pc = "merging" /\ SeenList(k, idx) /\ SeenNonList(k, idx))
       => (HasKey(heap[merged], k) /\ Lookup(heap[merged], k) = Mixed)
    /\ (pc = "once" /\ IsSiblingDoc /\ SeenList(k, NumItems) /\ SeenNonList(k, NumItems))
       => /\ ObjectArrayResult
          /\ k \in DOMAIN result.elem.fields
          /\ result.elem.fields[k] = Label("MixedType")

C3_Witness ==
  /\ pc = "merging"
  /\ idx = 3
  /\ SeenList("a", 2)
  /\ SeenNonList("a", 2)
  /\ TreeHasKey(doc.items[3], "a")
  /\ Lookup(heap[merged], "a") = Mixed

C5_KeyUnion ==
  (pc = "once" /\ IsSiblingDoc)
  => /\ ObjectArrayResult
     /\ DOMAIN result.elem.fields = {k \in KeySet : Carriers(k) # {}}

C5_Witness ==
  /\ pc = "once"
  /\ IsSiblingDoc
  /\ Carriers("a") # {}
  /\ Carriers("b") # {}
  /\ Carriers("a") \cap Carriers("b") = {}
  /\ SeenList("a", NumItems)
  /\ SeenNonList("a", NumItems)
  /\ DOMAIN result.elem.fields = {"a", "b"}

\* every sibling that carries k holds a sequence under k
C6Case(k) ==
  /\ Carriers(k) # {}
  /\ \A i \in Carriers(k) : TreeGet(doc.items[i], k).kind = "list"

\* C6: when every sibling that carries k holds a sequence under k, the schema
\* of k is the array schema of those sequences concatenated in sibling order.
C6_ListConcat ==
  \A k \in KeySet :
    (pc = "once" /\ IsSiblingDoc /\ C6Case(k))
    => /\ ObjectArrayResult
       /\ k \in DOMAIN result.elem.fields
       /\ result.elem.fields[k] = InferTree(ListTree(FieldItems(k, 1)))

C6_Witness ==
  /\ pc = "once"
  /\ IsSiblingDoc
  /\ C6Case("a")
  /\ Cardinality(Carriers("a")) >= 2
  /\ result.elem.fields["a"] = Hetero({"int", "str"})

\* C7: an array whose elements carry two or more distinct labels yields
\* exactly the set of those labels, and no element is entered (nothing is
\* allocated or changed on the heap).
C7_HeterogeneityWins ==
  (pc = "once" /\ IsArrayDoc /\ Cardinality(DocLabels) > 1)
  => /\ result = Hetero(DocLabels)
     /\ heap = Load(<<>>, doc).heap

C7_Witness ==
  /\ pc = "once"
  /\ IsArrayDoc
  /\ \E i, j \in 1..NumItems : i # j /\ doc.items[i].kind = "dict" /\ doc.items[j].kind = "dict"
  /\ result = Hetero({"dict", "int"})

\* C8: a non-empty array of arrays yields a single-element array schema whose
\* element is the array schema of the inner arrays concatenated in order.
C8_NestedFlatten ==
  (pc = "once" /\ IsArrayDoc /\ DocLabels = {"list"})
  => result = Single(InferTree(ListTree(InnerItems(1))))

C8_Witness ==
  /\ pc = "once"
  /\ IsArrayDoc
  /\ DocLabels = {"list"}
  /\ NumItems = 2
  /\ Len(doc.items[1].items) = 2
  /\ Len(doc.items[2].items) = 1
  /\ result = Single(Single(Label("int")))

RECURSIVE TreeDepth(_), Max(_, _)
Max(S, i) == IF i = 0 THEN 0 ELSE IF S[i] > Max(S, i - 1) THEN S[i] ELSE Max(S, i - 1)
\* the nesting depth of a JSON value: 0 for a scalar or null, one more than
\* its deepest element or member for an array or an object
TreeDepth(t) ==
  IF t.kind = "scalar" THEN 0
  ELSE LET sub == IF t.kind = "list" THEN t.items ELSE t.vals
       IN 1 + Max([i \in 1..Len(sub) |-> TreeDepth(sub[i])], Len(sub))

\* the document is a chain of nested objects
IsObjectChain == \E n \in 1..(StackFrames \div 3 + 1) : doc = DictChain(n)

\* C9 (as claimed): a call that has not returned can take its next step, the
\* merge loop ends with the last sibling, and whatever a call of infer_schema
\* returns is a Schema Value, never a raised exception, for any nesting, for
\* the first call and for a call on the document the first call has worked on.
C9_Total ==
  /\ pc # "twice" => ENABLED Next
  /\ pc = "merging" => idx <= Len(heap[root.addr].items)
  /\ Returned => IsSchema(result)
  /\ pc = "twice" => IsSchema(result2)

\* C9 (amended): every call ends, either with a Schema Value or by raising
\* RecursionError and nothing else; it returns a Schema Value whenever the
\* slots left cover three for every nesting level of the document and three
\* more, also for a MixedType stored by the merge and for lists the merge has
\* extended; and it raises RecursionError for objects nested so deep that
\* three slots for every level and two more are not left.
C9_TotalWithinStack ==
  /\ pc # "twice" => ENABLED Next
  /\ pc = "merging" => idx <= Len(heap[root.addr].items)
  /\ Returned => (IsSchema(result) \/ result = RecursionError)
  /\ pc = "twice" => (IsSchema(result2) \/ result2 = RecursionError)
  /\ (Returned /\ 3 * TreeDepth(doc) + 3 <= StackFrames) => IsSchema(result)
  /\ (pc = "twice" /\ 3 * TreeDepth(doc) + 3 <= StackFrames) => IsSchema(result2)
  /\ (Returned /\ IsObjectChain /\ 3 * TreeDepth(doc) + 2 > StackFrames)
     => result = RecursionError
  /\ (pc = "twice" /\ IsObjectChain /\ 3 * TreeDepth(doc) + 2 > StackFrames)
     => result2 = RecursionError

\* the deepest chain of objects that the slots still cover has returned its
\* schema twice
C9_Witness ==
  /\ pc = "twice"
  /\ IsObjectChain
  /\ 3 * TreeDepth(doc) + 3 <= StackFrames
  /\ 3 * (TreeDepth(doc) + 1) + 3 > StackFrames
  /\ IsSchema(result)
  /\ result2 = result

\* every element of the document is null, or every element is a scalar of one kind
C10Case ==
  /\ IsArrayDoc
  /\ Cardinality(DocLabels) = 1
  /\ \A i \in 1..NumItems : doc.items[i].kind = "scalar"

\* C10: for a non-empty array of nulls or of scalars of one kind, the result
\* is [s] where s is infer_schema of each element.
C10_ElementConsistency ==
  (pc = "once" /\ C10Case)
  => \A i \in 1..NumItems : result = Single(InferTree(doc.items[i]))

====
